---------------------------- MODULE Spec2Model ----------------------------
(***************************************************************************)
(* A model of fhir_to_brics: the row mapper, the value-set resolver, the   *)
(* extension expander and the template merger of utils.py, and the         *)
(* pipeline of main.py that runs them.                                     *)
(*                                                                         *)
(* Text is a sequence of pieces (a piece is a character, or a literal of   *)
(* the program such as a column name, kept whole).  A cell of a table is   *)
(* NaN (missing) or a text.                                                *)
(***************************************************************************)
EXTENDS Integers, Sequences, FiniteSets, TLC

VARIABLES
    pc,             \* where the run is
    row,            \* SpecText: the profile row being mapped
    variable_name,  \* SpecText: create_variable_name(row)
    mapped_text,    \* SpecText: brics column -> combined text
    uri,            \* SpecResolve: the binding URI being resolved
    server,         \* what the terminology endpoints answer, per URI
    nlm_api_key,    \* the NLM API key (empty when unset)
    valueset,       \* SpecResolve: what fetch_valueset returned
    parsed,         \* SpecResolve: what parse_valueset_to_list returned
    new_row,        \* SpecResolve: the row the permissible values go into
    requests,       \* the HTTP requests made so far, in order
    err,            \* the exception that ended the run ("" when none)
    df_resource,    \* Spec: the resource rows
    df_extensions,  \* Spec: the extension rows
    de_template,    \* Spec: the template, [columns, rows]
    idx,            \* Spec: how many resource rows have been processed
    new_rows,       \* Spec: the mapped rows so far
    brics_des,      \* Spec: what merge_with_template returned
    out_file        \* Spec: the written CSV ("none" before the write)

textVars == <<row, variable_name, mapped_text>>

envVars == <<server, nlm_api_key>>

resolveVars == <<uri, valueset, parsed, new_row>>

mainVars == <<df_resource, df_extensions, de_template, idx, new_rows,
              brics_des, out_file>>

vars == <<pc, err, requests, envVars, textVars, resolveVars, mainVars>>

----------------------------------------------------------------------------
(* Cells and text *)

NaN == [na |-> TRUE]

Cell(s) == [na |-> FALSE, s |-> s]

\* pd.notna
notna(c) == ~c.na

\* What an f-string renders a cell as.
Format(c) == IF c.na THEN <<"nan">> ELSE c.s

\* str.rstrip(ch): every trailing ch is removed.
RECURSIVE rstrip(_, _)
rstrip(s, ch) ==
    IF s # <<>> /\ s[Len(s)] = ch THEN rstrip(SubSeq(s, 1, Len(s) - 1), ch)
    ELSE s

\* str.endswith
endswith(s, suffix) ==
    /\ Len(suffix) <= Len(s)
    /\ SubSeq(s, Len(s) - Len(suffix) + 1, Len(s)) = suffix

\* sep.join(parts)
RECURSIVE join(_, _)
join(parts, sep) ==
    IF parts = <<>> THEN <<>>
    ELSE IF Len(parts) = 1 THEN parts[1]
    ELSE parts[1] \o sep \o join(Tail(parts), sep)

\* s.split(ch), ch one character: the pieces between the occurrences of ch
\* (one piece more than there are occurrences).
RECURSIVE split(_, _)
split(s, ch) ==
    IF \A k \in 1..Len(s) : s[k] # ch THEN <<s>>
    ELSE LET k == CHOOSE j \in 1..Len(s) :
                      s[j] = ch /\ \A m \in 1..(j - 1) : s[m] # ch
         IN <<SubSeq(s, 1, k - 1)>> \o split(SubSeq(s, k + 1, Len(s)), ch)

----------------------------------------------------------------------------
(* The row mapper *)

\* main.py: the mapping of BRICS columns to profile columns, in dict order.
MappingOrder ==
    <<"short description", "definition", "guidelines/instructions",
      "notes", "references">>

mappings ==
    [b \in {MappingOrder[k] : k \in 1..Len(MappingOrder)} |->
        CASE b = "short description" ->
                 <<"Path", "Slice Name", "Must Support?", "Short">>
          [] b = "definition" ->
                 <<"Definition", "Comments", "Requirements",
                   "Meaning When Missing">>
          [] b = "guidelines/instructions" ->
                 <<"Binding Strength", "Binding Description">>
          [] b = "notes" -> <<"Is Modifier?", "Is Summary?">>
          [] b = "references" -> <<"Binding Value Set">>]

prefix == <<"FHIR">>

sep == <<" | ">>

\* The Series branch of create_variable_name.
create_variable_name(r) ==
    rstrip(Format(r["Path"]) \o <<":">>
               \o (IF notna(r["Slice Name"]) THEN r["Slice Name"].s ELSE <<>>),
           ":")

\* The inner loop of combine_columns_into_string over one column list: the
\* parts appended, in order.
RECURSIVE column_parts(_, _)
column_parts(r, columns) ==
    IF columns = <<>> THEN <<>>
    ELSE LET column == Head(columns)
             value == r[column]
         IN (IF notna(value)
                THEN <<prefix \o <<" ", column, ": ">> \o Format(value)>>
                ELSE <<>>)
            \o column_parts(r, Tail(columns))

\* The outer loop: columns_dict is the sequence of the dict's values.
RECURSIVE combined_column_parts(_, _)
combined_column_parts(r, columns_dict) ==
    IF columns_dict = <<>> THEN <<>>
    ELSE column_parts(r, Head(columns_dict))
             \o combined_column_parts(r, Tail(columns_dict))

\* combine_columns_into_string, every missing value rendered too.
combine_columns_into_string_all(r, columns_dict) ==
    join([k \in 1..Len(columns_dict[1]) |->
             prefix \o <<" ", columns_dict[1][k], ": ">>
                 \o Format(r[columns_dict[1][k]])], sep)

combine_columns_into_string(r, columns_dict) ==
    join(combined_column_parts(r, columns_dict), sep)

\* process_resource_rows, "Map fields to BRICS": one text per BRICS column.
map_fields(r) ==
    [b \in DOMAIN mappings |-> combine_columns_into_string(r, <<mappings[b]>>)]

----------------------------------------------------------------------------
(* The value-set resolver *)

\* Python's None, and an optional text.
None == [none |-> TRUE]

Some(s) == [none |-> FALSE, s |-> s]

\* Truth of an optional text: None and "" are false.
truthy(o) == ~o.none /\ o.s # <<>>

\* The deepest nesting of parse_valueset_to_list calls the interpreter allows
\* (sys.getrecursionlimit(), scaled down).
RecursionLimit == 3

NLMDomain == "cts.nlm.nih.gov"

\* main.py: fhir_headers.
fhir_headers == {<<"Accept", "application/fhir+json">>}

NoHeaders == {}

\* "cts.nlm.nih.gov" in uri: the domain occurs anywhere in the URI.
in_uri(domain, u) == \E k \in 1..Len(u) : u[k] = domain

b64encode(s) == <<"b64(">> \o s \o <<")">>

\* What the endpoint answers: a RequestException (connection error, timeout,
\* non-2xx status), a 2xx body that is not JSON, or a 2xx JSON body.
RequestException == [kind |-> "error"]

NotJson == [kind |-> "notjson"]

Json(body) == [kind |-> "json", body |-> body]

\* A returned value, and a raised exception.
Return(v, reqs) == [exc |-> "", value |-> v, reqs |-> reqs]

Raise(e, reqs) == [exc |-> e, value |-> None, reqs |-> reqs]

\* requests.get + raise_for_status + json.loads under
\* "except requests.exceptions.RequestException": json.loads raises
\* json.JSONDecodeError, which is a ValueError and not a RequestException.
get_json(srv, u, req) ==
    CASE srv[u].kind = "error" -> Return(None, <<req>>)
      [] srv[u].kind = "notjson" -> Raise("JSONDecodeError", <<req>>)
      [] srv[u].kind = "json" -> Return(srv[u].body, <<req>>)

fetch_fhir_valueset(srv, u, headers) ==
    get_json(srv, u, [uri |-> u, via |-> "fhir", headers |-> headers])

fetch_nlm_valueset(srv, u, api_key) ==
    get_json(srv, u,
             [uri |-> u, via |-> "nlm",
              headers |-> {<<"Authorization",
                             <<"Basic ">>
                                 \o b64encode(<<"apikey:">> \o api_key)>>}])

fetch_valueset(srv, u, headers, api_key) ==
    IF in_uri(NLMDomain, u) /\ api_key # <<>>
        THEN fetch_nlm_valueset(srv, u, api_key)
        ELSE fetch_fhir_valueset(srv, u, headers)

\* Truth of a fetched value: None and {} are false.
truthy_json(v) == v # None /\ v.keys # {}

\* concept.get(key, "")
get(concept, key) == IF notna(concept[key]) THEN concept[key].s ELSE <<>>

\* The loop over include["concept"]: the two lists appended to.
RECURSIVE concept_loop(_, _)
concept_loop(concepts, acc) ==
    IF concepts = <<>> THEN acc
    ELSE concept_loop(Tail(concepts),
                      [acc EXCEPT !.pv = Append(@, get(Head(concepts), "code")),
                                  !.pvd = Append(@, get(Head(concepts),
                                                        "display"))])

RECURSIVE parse_valueset_to_list(_, _, _, _, _)
RECURSIVE valueSet_loop(_, _, _, _, _, _)
RECURSIVE include_loop(_, _, _, _, _, _)

\* One nested value set, fetched as f: "if nested_valueset:" and the parse of
\* it, called without fhir_headers and nlm_api_key, so with both None; its
\* two strings are split and appended when both are non-empty.
nested_valueset(srv, f, depth, acc) ==
    IF f.exc # "" \/ ~truthy_json(f.value)
        THEN [acc EXCEPT !.reqs = @ \o f.reqs, !.exc = f.exc]
    ELSE CHOOSE a \in
        {IF n.exc # ""
             THEN [acc EXCEPT !.reqs = @ \o f.reqs \o n.reqs, !.exc = n.exc]
         ELSE IF truthy(n.values) /\ truthy(n.descriptions)
             THEN [acc EXCEPT
                     !.reqs = @ \o f.reqs \o n.reqs,
                     !.pv = @ \o split(n.values.s, "|"),
                     !.pvd = @ \o split(n.descriptions.s, "|")]
         ELSE [acc EXCEPT !.reqs = @ \o f.reqs \o n.reqs] :
            n \in {parse_valueset_to_list(srv, f.value, NoHeaders, <<>>,
                                          depth + 1)}} : TRUE

\* The loop over include["valueSet"].
valueSet_loop(srv, uris, headers, api_key, depth, acc) ==
    IF uris = <<>> \/ acc.exc # "" THEN acc
    ELSE CHOOSE a \in
        {valueSet_loop(srv, Tail(uris), headers, api_key, depth, a1) :
            a1 \in {nested_valueset(srv, f, depth, acc) :
                       f \in {fetch_valueset(srv, Head(uris), headers,
                                             api_key)}}} : TRUE

\* One include: concept, elif valueSet.
include_step(srv, include, headers, api_key, depth, acc) ==
    IF "concept" \in include.keys
        THEN concept_loop(include.concept, acc)
    ELSE IF "valueSet" \in include.keys
        THEN valueSet_loop(srv, include.valueSet, headers, api_key, depth, acc)
    ELSE acc

\* The loop over compose.include.
include_loop(srv, includes, headers, api_key, depth, acc) ==
    IF includes = <<>> \/ acc.exc # "" THEN acc
    ELSE CHOOSE a \in
        {include_loop(srv, Tail(includes), headers, api_key, depth, a1) :
            a1 \in {include_step(srv, Head(includes), headers, api_key,
                                 depth, acc)}} : TRUE

\* The end of parse_valueset_to_list: (None, None) when either list is empty,
\* else the two lists joined by "|".
parse_result(acc) ==
    IF acc.exc # "" \/ acc.pv = <<>> \/ acc.pvd = <<>>
        THEN [exc |-> acc.exc, values |-> None, descriptions |-> None,
              reqs |-> acc.reqs]
        ELSE [exc |-> "", values |-> Some(join(acc.pv, <<"|">>)),
              descriptions |-> Some(join(acc.pvd, <<"|">>)),
              reqs |-> acc.reqs]

\* parse_valueset_to_list at nesting depth `depth`: [exc, values,
\* descriptions, reqs].
parse_valueset_to_list(srv, vs, headers, api_key, depth) ==
    IF depth > RecursionLimit
        THEN [exc |-> "RecursionError", values |-> None,
              descriptions |-> None, reqs |-> <<>>]
    ELSE IF "compose" \in vs.keys /\ "include" \in vs.compose
        THEN CHOOSE p \in
            {parse_result(acc) :
                acc \in {include_loop(srv, vs.include, headers, api_key, depth,
                                      [pv |-> <<>>, pvd |-> <<>>,
                                       reqs |-> <<>>, exc |-> ""])}} : TRUE
    ELSE [exc |-> "", values |-> None, descriptions |-> None, reqs |-> <<>>]

\* process_resource_rows, "if permissible_values and
\* permissible_values_descriptions": the two cells of the mapped row r set
\* from a parse result p.
assign_permissible_values(r, p) ==
    IF p.exc = "" /\ truthy(p.values) /\ truthy(p.descriptions)
        THEN [exc |-> "",
              row |-> ("permissible values" :> p.values.s)
                      @@ ("permissible value descriptions"
                              :> p.descriptions.s)
                      @@ r,
              reqs |-> p.reqs]
        ELSE [exc |-> p.exc, row |-> r, reqs |-> p.reqs]

\* process_resource_rows, "if valueset:": the permissible values of a fetched
\* value set put into the mapped row r.  [exc, row, reqs].
set_permissible_values(srv, r, vs, headers, api_key) ==
    IF ~truthy_json(vs) THEN [exc |-> "", row |-> r, reqs |-> <<>>]
    ELSE CHOOSE s \in
        {assign_permissible_values(r, p) :
            p \in {parse_valueset_to_list(srv, vs, headers, api_key, 1)}} : TRUE

\* After the fetch f of a binding URI.
after_fetch(srv, r, f, headers, api_key) ==
    IF f.exc # "" THEN [exc |-> f.exc, row |-> r, reqs |-> f.reqs]
    ELSE CHOOSE out \in
        {[exc |-> s.exc, row |-> s.row, reqs |-> f.reqs \o s.reqs] :
            s \in {set_permissible_values(srv, r, f.value, headers,
                                          api_key)}} : TRUE

\* process_resource_rows, "Handle 'Binding Value Set' URIs": binding is the
\* row's Binding Value Set cell.  [exc, row, reqs].
resolve_binding(srv, r, binding, headers, api_key) ==
    IF ~notna(binding) THEN [exc |-> "", row |-> r, reqs |-> <<>>]
    ELSE CHOOSE out \in
        {after_fetch(srv, r, f, headers, api_key) :
            f \in {fetch_valueset(srv, binding.s, headers, api_key)}} : TRUE

----------------------------------------------------------------------------
(* The extension expander, the row loop and the template merger *)

\* A dict of texts as a dict of cells.
cells(d) == [k \in DOMAIN d |-> Cell(d[k])]

\* pd.DataFrame(rows).to_dict("records"): every record gets every column of
\* the frame, NaN where its dict had no such key.
to_records(rows) ==
    LET columns == UNION {DOMAIN rows[k] : k \in 1..Len(rows)}
    IN [k \in 1..Len(rows) |->
           [c \in columns |-> IF c \in DOMAIN rows[k] THEN rows[k][c] ELSE NaN]]

\* The first lines of a mapped row: the variable name and the mapped texts.
base_row(name, r) == ("variable name" :> name) @@ map_fields(r)

ValueX == <<".value[x]">>

MaskError == "ValueError: Cannot mask with non-boolean array containing NA / NaN values"

MergeError == "ValueError: Column in df_mapped is not in de_template"

\* df_extensions[df_extensions["Profile"].str.endswith(slice_name)]: the
\* mask of a missing Profile is NaN, and a mask holding NaN cannot index.
profile_mask_fails(exts) == \E k \in 1..Len(exts) : ~notna(exts[k]["Profile"])

matching_profile(exts, slice_name) ==
    SelectSeq(exts, LAMBDA e : notna(e["Profile"])
                               /\ endswith(e["Profile"].s, slice_name))

matching_id(exts) ==
    SelectSeq(exts, LAMBDA e : notna(e["Id"]) /\ endswith(e["Id"].s, ValueX))

\* The loop over matching_extensions: [exc, rows, reqs].
RECURSIVE extension_loop(_, _, _, _, _, _)
extension_loop(srv, r, matching, headers, api_key, acc) ==
    IF matching = <<>> \/ acc.exc # "" THEN acc
    ELSE CHOOSE out \in
        {extension_loop(srv, r, Tail(matching), headers, api_key,
                        [exc |-> b.exc,
                         rows |-> IF b.exc = "" THEN Append(acc.rows, cells(b.row))
                                  ELSE acc.rows,
                         reqs |-> acc.reqs \o b.reqs]) :
            b \in {resolve_binding(
                       srv,
                       base_row(create_variable_name(r) \o <<".">>
                                    \o Head(matching)["Id"].s, r),
                       Head(matching)["Binding Value Set"], headers,
                       api_key)}} : TRUE

\* process_extension_rows followed by .to_dict("records"): [exc, rows, reqs].
process_extension_rows(srv, r, exts, headers, api_key) ==
    IF profile_mask_fails(exts)
        THEN [exc |-> MaskError, rows |-> <<>>, reqs |-> <<>>]
    ELSE IF \E k \in 1..Len(matching_profile(exts, r["Slice Name"].s)) :
                ~notna(matching_profile(exts, r["Slice Name"].s)[k]["Id"])
        THEN [exc |-> MaskError, rows |-> <<>>, reqs |-> <<>>]
    ELSE CHOOSE out \in
        {[exc |-> x.exc, rows |-> to_records(x.rows), reqs |-> x.reqs] :
            x \in {extension_loop(
                       srv, r, matching_id(matching_profile(exts, r["Slice Name"].s)),
                       headers, api_key,
                       [exc |-> "", rows |-> <<>>, reqs |-> <<>>])}} : TRUE

\* The rows one resource row adds to new_rows: its own row, then the rows of
\* its extensions.
row_then_extensions(own, extension_rows) == <<own>> \o extension_rows

\* One iteration of the loop of process_resource_rows: [exc, rows, reqs].
process_resource_row(srv, r, exts, headers, api_key) ==
    CHOOSE out \in
        {IF b.exc # "" THEN [exc |-> b.exc, rows |-> <<>>, reqs |-> b.reqs]
         ELSE IF ~notna(r["Slice Name"])
             THEN [exc |-> "", rows |-> <<cells(b.row)>>, reqs |-> b.reqs]
         ELSE CHOOSE o2 \in
             {[exc |-> x.exc,
               rows |-> row_then_extensions(cells(b.row), x.rows),
               reqs |-> b.reqs \o x.reqs] :
                 x \in {process_extension_rows(srv, r, exts, headers,
                                               api_key)}} : TRUE :
            b \in {resolve_binding(srv, base_row(create_variable_name(r), r),
                                   r["Binding Value Set"], headers,
                                   api_key)}} : TRUE

\* pd.DataFrame(new_rows).columns
df_columns(rows) == UNION {DOMAIN rows[k] : k \in 1..Len(rows)}

\* The column check left out.
columns_unchecked(columns, template) == TRUE

\* merge_with_template: the column check.
columns_in_template(columns, template) == columns \subseteq template.columns

\* A row of the concatenated frame: the template's columns (every mapped
\* column is one of them), NaN where the row has no such cell.
reindex(r, columns) == [c \in columns |-> IF c \in DOMAIN r THEN r[c] ELSE NaN]

\* The frames concatenated the other way round.
concat_mapped_first(template, rows) ==
    [columns |-> template.columns \union df_columns(rows),
     rows |-> [k \in 1..Len(rows) |->
                  reindex(rows[k], template.columns \union df_columns(rows))]
              \o [k \in 1..Len(template.rows) |->
                     reindex(template.rows[k], template.columns \union df_columns(rows))]]

\* pd.concat([de_template, df_mapped], ignore_index=True)
concat(template, rows) ==
    [columns |-> template.columns \union df_columns(rows),
     rows |-> [k \in 1..Len(template.rows) |->
                  reindex(template.rows[k], template.columns \union df_columns(rows))]
              \o [k \in 1..Len(rows) |->
                     reindex(rows[k], template.columns \union df_columns(rows))]]

----------------------------------------------------------------------------
(* The inputs the runs are drawn from *)

Columns ==
    {"Path", "Slice Name", "Must Support?", "Short", "Definition",
     "Comments", "Requirements", "Meaning When Missing", "Binding Strength",
     "Binding Description", "Binding Value Set", "Is Modifier?",
     "Is Summary?", "Profile", "Id"}

\* A table row: the cells given, every other cell missing.
MakeRow(given) ==
    [c \in Columns |-> IF c \in DOMAIN given THEN given[c] ELSE NaN]

UriA == <<"https://", "tx.fhir.org", "/", "A">>

UriB == <<"https://", "tx.fhir.org", "/", "B">>

UriC == <<"https://", "cts.nlm.nih.gov", "/", "C">>

URIs == {UriA, UriB, UriC}

Concept(code, display) == [code |-> code, display |-> display]

cA == Concept(Cell(<<"a">>), Cell(<<"x">>))

\* no display
cB == Concept(Cell(<<"b">>), NaN)

\* a "|" in the code
cP == Concept(Cell(<<"c", "|", "d">>), Cell(<<"y">>))

ValueSet(includes) ==
    [keys |-> {"resourceType", "compose"}, compose |-> {"include"},
     include |-> includes]

NoCompose == [keys |-> {"resourceType"}, compose |-> {}, include |-> <<>>]

EmptyDict == [keys |-> {}, compose |-> {}, include |-> <<>>]

ConceptInclude(cs) ==
    [keys |-> {"system", "concept"}, concept |-> cs, valueSet |-> <<>>]

ValueSetInclude(us) == [keys |-> {"valueSet"}, concept |-> <<>>, valueSet |-> us]

BothInclude(cs, us) ==
    [keys |-> {"system", "concept", "valueSet"}, concept |-> cs,
     valueSet |-> us]

\* What UriC (a leaf value set) may answer.
ResponsesC ==
    {RequestException, NotJson, Json(EmptyDict), Json(NoCompose),
     Json(ValueSet(<<ConceptInclude(<<cA>>)>>)),
     Json(ValueSet(<<ConceptInclude(<<cB>>)>>)),
     Json(ValueSet(<<ConceptInclude(<<cA, cB>>)>>)),
     Json(ValueSet(<<ConceptInclude(<<cP>>)>>))}

\* What UriB may answer: value sets that include UriC, or UriB itself.
ResponsesB ==
    {RequestException, NotJson,
     Json(ValueSet(<<ValueSetInclude(<<UriC>>)>>)),
     Json(ValueSet(<<BothInclude(<<cA>>, <<UriC>>)>>)),
     Json(ValueSet(<<ConceptInclude(<<cA>>), ValueSetInclude(<<UriC>>)>>)),
     Json(ValueSet(<<ValueSetInclude(<<UriB>>)>>))}

\* What UriA may answer: value sets that include UriB and UriC.
ResponsesA ==
    {RequestException,
     Json(ValueSet(<<ValueSetInclude(<<UriB>>)>>)),
     Json(ValueSet(<<ValueSetInclude(<<UriB, UriC>>)>>)),
     Json(ValueSet(<<ConceptInclude(<<cB>>), ValueSetInclude(<<UriB>>),
                     ConceptInclude(<<cA>>)>>))}

Servers ==
    {(UriA :> a) @@ (UriB :> b) @@ (UriC :> c) :
        a \in ResponsesA, b \in ResponsesB, c \in ResponsesC}

ApiKeys == {<<>>, <<"k">>}

Paths == {Cell(<<"p">>), Cell(<<"p", ":">>)}

SliceNames == {NaN, Cell(<<"s">>), Cell(<<"s", ":">>)}

TextColumns ==
    {"Must Support?", "Short", "Definition", "Comments", "Requirements",
     "Meaning When Missing", "Binding Strength", "Binding Description",
     "Binding Value Set", "Is Modifier?", "Is Summary?"}

\* The rows of SpecText: every mapped column missing or not.
TextRows ==
    {MakeRow(("Path" :> p) @@ ("Slice Name" :> s) @@ f) :
        p \in Paths, s \in SliceNames, f \in [TextColumns -> {NaN, Cell(<<"x">>)}]}

NoRow == MakeRow(<<>>)

----------------------------------------------------------------------------
(* SpecText: the row mapper on one row *)

NoParse == [exc |-> "", values |-> None, descriptions |-> None, reqs |-> <<>>]

\* The variables a specification does not use, at rest.
IdleResolve ==
    /\ uri = <<>> /\ valueset = None /\ parsed = NoParse /\ new_row = <<>>

IdleText == row = NoRow /\ variable_name = <<>> /\ mapped_text = <<>>

IdleMain ==
    /\ df_resource = <<>> /\ df_extensions = <<>>
    /\ de_template = <<>> /\ idx = 0 /\ new_rows = <<>>
    /\ brics_des = <<>> /\ out_file = "none"

InitText ==
    /\ pc = "start" /\ err = "" /\ requests = <<>>
    /\ row \in TextRows
    /\ variable_name = <<>> /\ mapped_text = <<>>
    /\ server = <<>> /\ nlm_api_key = <<>>
    /\ IdleResolve /\ IdleMain

\* process_resource_rows: new_row["variable name"] = create_variable_name(row)
CreateVariableName ==
    /\ pc = "start"
    /\ variable_name' = create_variable_name(row)
    /\ pc' = "named"
    /\ UNCHANGED <<row, mapped_text, err, requests, envVars, resolveVars,
                   mainVars>>

\* process_resource_rows: the loop over mappings.items()
MapFields ==
    /\ pc = "named"
    /\ mapped_text' = map_fields(row)
    /\ pc' = "mapped"
    /\ UNCHANGED <<row, variable_name, err, requests, envVars, resolveVars,
                   mainVars>>

NextText == CreateVariableName \/ MapFields

SpecText == InitText /\ [][NextText]_vars

----------------------------------------------------------------------------
(* SpecResolve: the value-set resolver on one binding URI *)

InitResolve ==
    /\ pc = "start" /\ err = "" /\ requests = <<>>
    /\ uri \in URIs
    /\ server \in Servers
    /\ nlm_api_key \in ApiKeys
    /\ valueset = None /\ parsed = NoParse /\ new_row = <<>>
    /\ IdleText /\ IdleMain

\* valueset = fetch_valueset(uri, fhir_headers, nlm_api_key)
FetchBinding ==
    /\ pc = "start"
    /\ \E f \in {fetch_valueset(server, uri, fhir_headers, nlm_api_key)} :
          /\ requests' = requests \o f.reqs
          /\ valueset' = f.value
          /\ err' = f.exc
          /\ pc' = IF f.exc # "" THEN "raised" ELSE "fetched"
    /\ UNCHANGED <<uri, parsed, new_row, envVars, textVars, mainVars>>

\* if valueset: parse_valueset_to_list(valueset, fhir_headers, nlm_api_key)
ParseValueSet ==
    /\ pc = "fetched"
    /\ IF truthy_json(valueset)
           THEN \E p \in {parse_valueset_to_list(server, valueset,
                                                 fhir_headers, nlm_api_key,
                                                 1)} :
                   /\ requests' = requests \o p.reqs
                   /\ parsed' = p
                   /\ err' = p.exc
                   /\ pc' = IF p.exc # "" THEN "raised" ELSE "parsed"
           ELSE pc' = "resolved" /\ UNCHANGED <<requests, parsed, err>>
    /\ UNCHANGED <<uri, valueset, new_row, envVars, textVars, mainVars>>

\* if permissible_values and permissible_values_descriptions: the two
\* assignments to new_row
AssignPermissibleValues ==
    /\ pc = "parsed"
    /\ new_row' = assign_permissible_values(new_row, parsed).row
    /\ pc' = "resolved"
    /\ UNCHANGED <<uri, valueset, parsed, err, requests, envVars, textVars,
                   mainVars>>

NextResolve == FetchBinding \/ ParseValueSet \/ AssignPermissibleValues

SpecResolve == InitResolve /\ [][NextResolve]_vars

----------------------------------------------------------------------------
(* Spec: the run of main *)

\* The most resource rows of a run.
MaxRows == 2

ResourceProfile == Cell(<<"us-core", "-", "patient">>)

\* Resource rows: load_resource keeps rows whose Profile ends with the
\* resource name.
ResourceRows ==
    {MakeRow(("Path" :> p) @@ ("Slice Name" :> s) @@ ("Binding Value Set" :> b)
             @@ ("Short" :> Cell(<<"x">>)) @@ ("Profile" :> ResourceProfile)) :
        p \in {Cell(<<"p">>), Cell(<<"q">>)},
        s \in {NaN, Cell(<<"s">>)},
        b \in {NaN, Cell(UriA)}}

\* An extension row: load_extensions keeps rows whose Id starts with the
\* extension prefix, so no Id is missing.
Extension(profile, id, binding) ==
    MakeRow(("Profile" :> profile) @@ ("Id" :> Cell(<<"Extension">> \o id))
            @@ ("Binding Value Set" :> binding))

ProfileS == Cell(<<"us-core", "-", "s">>)

ProfileT == Cell(<<"us-core", "-", "t">>)

ExtensionTables ==
    {<<>>,
     <<Extension(ProfileS, ValueX, Cell(UriC))>>,
     <<Extension(ProfileS, <<".url">>, NaN),
       Extension(ProfileS, <<".1">> \o ValueX, Cell(UriB)),
       Extension(ProfileT, ValueX, Cell(UriC)),
       Extension(ProfileS, <<".2">> \o ValueX, NaN)>>,
     <<Extension(ProfileT, ValueX, NaN)>>,
     <<Extension(ProfileS, ValueX, NaN), Extension(NaN, ValueX, NaN)>>}

BricsColumns ==
    {"variable name", "title", "short description", "definition",
     "guidelines/instructions", "notes", "references", "permissible values",
     "permissible value descriptions"}

TemplateRow(columns, name) ==
    [c \in columns |-> IF c = "variable name" THEN Cell(<<name>>) ELSE NaN]

Template(columns, names) ==
    [columns |-> columns,
     rows |-> [k \in 1..Len(names) |-> TemplateRow(columns, names[k])]]

Templates ==
    {Template(BricsColumns, <<"t1", "t2">>),
     Template(BricsColumns, <<>>),
     Template(BricsColumns
                  \ {"permissible values", "permissible value descriptions"},
              <<"t1">>)}

\* The endpoints of the runs of main.
MainServers ==
    {(UriA :> a) @@ (UriB :> b) @@ (UriC :> c) :
        a \in {Json(ValueSet(<<ConceptInclude(<<cB>>), ValueSetInclude(<<UriB>>),
                               ConceptInclude(<<cA>>)>>))},
        b \in {RequestException,
               Json(ValueSet(<<ValueSetInclude(<<UriC>>)>>))},
        c \in {NotJson, Json(ValueSet(<<ConceptInclude(<<cA, cB>>)>>))}}

RECURSIVE SeqsUpTo(_, _)
SeqsUpTo(S, n) ==
    IF n = 0 THEN {<<>>}
    ELSE SeqsUpTo(S, n - 1)
             \union {Append(q, x) : q \in SeqsUpTo(S, n - 1), x \in S}

Init ==
    /\ pc = "process" /\ err = "" /\ idx = 0
    /\ df_resource \in SeqsUpTo(ResourceRows, MaxRows)
    /\ df_extensions \in ExtensionTables
    /\ de_template \in Templates
    /\ server \in MainServers
    /\ nlm_api_key = <<"k">>
    /\ new_rows = <<>> /\ brics_des = <<>> /\ out_file = "none"
    /\ requests = <<>>
    /\ IdleResolve /\ IdleText

\* One iteration of the loop of process_resource_rows.
ProcessResourceRow ==
    /\ pc = "process" /\ idx < Len(df_resource)
    /\ \E out \in {process_resource_row(server, df_resource[idx + 1],
                                        df_extensions, fhir_headers,
                                        nlm_api_key)} :
          /\ requests' = requests \o out.reqs
          /\ err' = out.exc
          /\ IF out.exc # ""
                 THEN pc' = "raised" /\ UNCHANGED <<idx, new_rows>>
                 ELSE /\ pc' = "process"
                      /\ idx' = idx + 1
                      /\ new_rows' = new_rows \o out.rows
    /\ UNCHANGED <<df_resource, df_extensions, de_template, brics_des,
                   out_file, envVars, textVars, resolveVars>>

\* df_mapped = pd.DataFrame(new_rows); merge_with_template(df_mapped,
\* de_template)
MergeWithTemplate ==
    /\ pc = "process" /\ idx = Len(df_resource)
    /\ IF columns_in_template(df_columns(new_rows), de_template)
           THEN /\ brics_des' = concat(de_template, new_rows)
                /\ pc' = "merged"
                /\ err' = ""
           ELSE /\ pc' = "raised"
                /\ err' = MergeError
                /\ UNCHANGED brics_des
    /\ UNCHANGED <<df_resource, df_extensions, de_template, idx, new_rows,
                   out_file, requests, envVars, textVars, resolveVars>>

\* brics_des.to_csv(fp_brics_des, index=False)
WriteCsv ==
    /\ pc = "merged"
    /\ out_file' = brics_des
    /\ pc' = "done"
    /\ UNCHANGED <<df_resource, df_extensions, de_template, idx, new_rows,
                   brics_des, err, requests, envVars, textVars, resolveVars>>

Next == ProcessResourceRow \/ MergeWithTemplate \/ WriteCsv

Spec == Init /\ [][Next]_vars

----------------------------------------------------------------------------
(* The claims *)

\* C1 (SpecResolve): whatever way the HTTP call for the binding URI fails (a
\* request error, or a 2xx body that is not JSON), fetch_valueset returns
\* None and raises nothing.
C1_FetchFailureReturnsNone ==
    (pc # "start" /\ server[uri].kind # "json")
        => (pc # "raised" /\ err = "" /\ valueset = None)

\* The number of entries of a "|"-delimited text.
Entries(s) == Len(split(s, "|"))

\* The (code, display) pairs of the concepts the server holds anywhere.
ServedPairs ==
    {<<get(c, "code"), get(c, "display")>> :
        c \in UNION {UNION {{i.concept[k] : k \in 1..Len(i.concept)} :
                               i \in {server[u].body.include[k] :
                                         k \in 1..Len(server[u].body.include)}} :
                        u \in {v \in URIs : server[v].kind = "json"}}}

\* C2 (SpecResolve): the resolved row has 'permissible values' and
\* 'permissible value descriptions' both or neither; when it has them they
\* have the same number of "|"-delimited entries, and the i-th description is
\* the display of the concept the i-th value is the code of.
C2_ParallelLists ==
    pc = "resolved" =>
        /\ ("permissible values" \in DOMAIN new_row)
               <=> ("permissible value descriptions" \in DOMAIN new_row)
        /\ "permissible values" \in DOMAIN new_row =>
               /\ Entries(new_row["permissible values"])
                      = Entries(new_row["permissible value descriptions"])
               /\ \A k \in 1..Entries(new_row["permissible values"]) :
                      <<split(new_row["permissible values"], "|")[k],
                        split(new_row["permissible value descriptions"], "|")[k]>>
                          \in ServedPairs

\* C3 (Spec): once the rows are all processed, mapped rows holding a column
\* that is not a template column make merge_with_template raise, nothing is
\* merged and nothing is written.
C3_MismatchRaisesBeforeWrite ==
    ~(df_columns(new_rows) \subseteq de_template.columns) =>
        /\ pc \notin {"merged", "done"}
        /\ brics_des = <<>> /\ out_file = "none"
        /\ (pc # "process" /\ idx = Len(df_resource)) =>
               (pc = "raised" /\ err = MergeError)

\* A run that merge_with_template ended: a row resolved permissible values
\* and the template has no such column.
C3_Witness ==
    /\ pc = "raised" /\ err = MergeError /\ out_file = "none"
    /\ "permissible values" \in df_columns(new_rows)
    /\ "permissible values" \notin de_template.columns

\* C4 (SpecText): the variable name is Path when Slice Name is missing and
\* Path:SliceName otherwise, no character of either removed.
C4_VariableNameExact ==
    pc # "start" =>
        variable_name =
            IF notna(row["Slice Name"])
                THEN row["Path"].s \o <<":">> \o row["Slice Name"].s
                ELSE row["Path"].s

\* C5 (Spec): no failure of a value-set fetch or parse ends the run.
C5_ResolutionNeverAborts ==
    pc = "raised" => err \notin {"JSONDecodeError", "RecursionError"}

\* The extension rows the claim counts as matching resource row r: Profile
\* ends with the slice name, Id ends with ".value[x]"; a missing Profile or
\* Id is no match.
Matches(r) ==
    IF notna(r["Slice Name"])
        THEN SelectSeq(df_extensions,
                       LAMBDA e : /\ notna(e["Profile"]) /\ notna(e["Id"])
                                  /\ endswith(e["Profile"].s, r["Slice Name"].s)
                                  /\ endswith(e["Id"].s, ValueX))
        ELSE <<>>

\* The variable names of the rows resource rows 1..n map to: each row's own,
\* then one per matching extension.
RECURSIVE ExpectedNames(_)
ExpectedNames(n) ==
    IF n = 0 THEN <<>>
    ELSE ExpectedNames(n - 1)
         \o <<create_variable_name(df_resource[n])>>
         \o [k \in 1..Len(Matches(df_resource[n])) |->
                create_variable_name(df_resource[n]) \o <<".">>
                    \o Matches(df_resource[n])[k]["Id"].s]

\* C6 (Spec): a resource row is followed by one row per matching extension,
\* named <parent>.<Id>, and by none when it has no Slice Name or no
\* extension matches; an extension row with a missing Profile is no match
\* and no error.
C6_ExtensionRows ==
    /\ err # MaskError
    /\ pc = "process" =>
           /\ Len(new_rows) = Len(ExpectedNames(idx))
           /\ \A k \in 1..Len(new_rows) :
                  new_rows[k]["variable name"] = Cell(ExpectedNames(idx)[k])

\* The host of a URI <<scheme, host, "/", ...>>.
Host(u) == u[2]

\* C7 (SpecResolve): with an API key set, every request goes out as the NLM
\* request when the host of its URI is cts.nlm.nih.gov, and as the generic
\* request with the Accept header otherwise.
C7_RequestByHost ==
    nlm_api_key # <<>> =>
        \A k \in 1..Len(requests) :
            IF Host(requests[k].uri) = NLMDomain
                THEN requests[k].via = "nlm"
                ELSE /\ requests[k].via = "fhir"
                     /\ requests[k].headers = fhir_headers

\* The source columns of BRICS column b that row holds a value for, in the
\* mapping's order.
Present(b) == SelectSeq(mappings[b], LAMBDA c : notna(row[c]))

\* C8 (SpecText): each mapped text is the entries "FHIR <column>: <value>"
\* of the non-missing source columns, in the mapping's order, joined by
\* " | "; the empty text when all are missing.
C8_MappedText ==
    pc = "mapped" =>
        \A b \in DOMAIN mappings :
            /\ mapped_text[b] =
                   join([k \in 1..Len(Present(b)) |->
                            <<"FHIR", " ", Present(b)[k], ": ">>
                                \o row[Present(b)[k]].s],
                        <<" | ">>)
            /\ Present(b) = <<>> => mapped_text[b] = <<>>

\* A mapped row with missing values between present ones, and a field whose
\* source columns are all missing.
C8_Witness ==
    /\ pc = "mapped"
    /\ notna(row["Definition"]) /\ ~notna(row["Comments"])
    /\ notna(row["Requirements"]) /\ ~notna(row["Meaning When Missing"])
    /\ ~notna(row["Is Modifier?"]) /\ ~notna(row["Is Summary?"])
    /\ mapped_text["notes"] = <<>>
    /\ Len(mapped_text["definition"]) = 11

Includes(u) ==
    IF server[u].kind # "json" THEN {}
    ELSE UNION {{i.valueSet[k] : k \in 1..Len(i.valueSet)} :
                   i \in {server[u].body.include[k] :
                             k \in 1..Len(server[u].body.include)}}

RECURSIVE Reachable(_, _)
Reachable(U, n) ==
    IF n = 0 THEN U
    ELSE Reachable(U \union UNION {Includes(u) : u \in U}, n - 1)

Acyclic == \A u \in URIs : u \notin Reachable(Includes(u), Cardinality(URIs))

\* The depth-first, in-order flattening the claim describes: per include its
\* concepts' (code, display) pairs and, per nested URI, the flattening of the
\* value set fetched there (nothing when the fetch fails).
RECURSIVE Flatten(_)
RECURSIVE FlattenUris(_)
RECURSIVE FlattenIncludes(_)
FlattenUris(uris) ==
    IF uris = <<>> THEN <<>>
    ELSE (IF server[Head(uris)].kind = "json"
             THEN Flatten(server[Head(uris)].body)
             ELSE <<>>)
         \o FlattenUris(Tail(uris))

FlattenIncludes(includes) ==
    IF includes = <<>> THEN <<>>
    ELSE [k \in 1..Len(Head(includes).concept) |->
             <<get(Head(includes).concept[k], "code"),
               get(Head(includes).concept[k], "display")>>]
         \o FlattenUris(Head(includes).valueSet)
         \o FlattenIncludes(Tail(includes))

Flatten(vs) == FlattenIncludes(vs.include)

\* C10 (SpecResolve): parse_valueset_to_list returns the codes and the
\* displays of the flattening, each joined by "|", and (None, None) only when
\* the flattening is empty.
C10_DepthFirstFlattening ==
    (pc \in {"parsed", "resolved"} /\ truthy_json(valueset) /\ Acyclic) =>
        IF Flatten(valueset) = <<>>
            THEN parsed.values = None /\ parsed.descriptions = None
            ELSE /\ parsed.values
                        = Some(join([k \in 1..Len(Flatten(valueset)) |->
                                        Flatten(valueset)[k][1]], <<"|">>))
                 /\ parsed.descriptions
                        = Some(join([k \in 1..Len(Flatten(valueset)) |->
                                        Flatten(valueset)[k][2]], <<"|">>))

\* C11 (SpecResolve): resolving a binding never runs the nesting of
\* parse_valueset_to_list calls past what the interpreter allows, also when
\* value sets include themselves or one another: the parse returns, no
\* RecursionError ends it.
C11_ResolutionReturns ==
    pc \in {"raised", "parsed", "resolved"} => err # "RecursionError"

============================================================================
